---- MODULE Spec2Model ----
(***************************************************************************)
(* Model of the Telegram channel monitor                                   *)
(* (src/src/agent/research_canvas/telegram/telegram_monitor.py):           *)
(* InitialAnalyzer.analyze, TelegramMonitor.subscribe_to_channel, the      *)
(* backfill (_load_recent_messages), normalization (_prepare_message_data),*)
(* the new-message push handler (_process_message) and the BigQuery insert *)
(* (_store_messages).                                                      *)
(*                                                                         *)
(* Python values are tagged records (PyNone, PyInt, PyStr, ...); strings   *)
(* the code inspects are sequences of one-character strings; scores are    *)
(* fixed-point numbers in units of 1/Scale.                                *)
(***************************************************************************)
EXTENDS Integers, Sequences, FiniteSets, Bags, TLC

\* -------------------------------------------------------------------------
\* Bounds of the model
\* -------------------------------------------------------------------------

\* Largest number of messages a channel holds in the runs of Spec.
MaxHistory == 1

\* Number of subscribe calls and push events (new or edited message) of
\* one run, together.
MaxCalls == 2

\* Largest number of consecutive insert attempts the warehouse rejects.
MaxInsertFailures == 1

\* Number of new-message events of one run of SpecPush.
MaxPushEvents == 3

\* Number of _handle_edited_message calls of one run of SpecEdit.
MaxEdits == 2

\* Longest handle of the runs of SpecClean, the example handle apart.
MaxHandleLen == 3

\* Number of read calls of one run of SpecRead.
MaxReads == 2

\* Number of edited-message events of one run of SpecEditEvents.
MaxEditEvents == 2

\* -------------------------------------------------------------------------
\* Python values
\* -------------------------------------------------------------------------

PyNone == [t |-> "None"]

PyInt(n) == [t |-> "int", v |-> n]

PyStr(s) == [t |-> "str", v |-> s]

\* dict.get(key, default)
Get(d, k, default) == IF k \in DOMAIN d THEN d[k] ELSE default

\* hasattr(o, name)
HasAttr(o, name) == name \in DOMAIN o

\* getattr(o, name, default): the default for a missing attribute only; an
\* attribute that is None gives None.
GetAttr(o, name, default) == IF HasAttr(o, name) THEN o[name] ELSE default

\* str(x) for the values a message field can hold: str(None) is the
\* four-character string "None".
PyStrOf(x) ==
    IF x.t = "None" THEN <<"N", "o", "n", "e">> ELSE x.v

IsSpace(c) == c \in {" ", "\t", "\n"}

RECURSIVE LStrip(_)
LStrip(s) ==
    IF s = <<>> THEN <<>>
    ELSE IF IsSpace(Head(s)) THEN LStrip(Tail(s))
    ELSE s

RECURSIVE RStrip(_)
RStrip(s) ==
    IF s = <<>> THEN <<>>
    ELSE IF IsSpace(s[Len(s)]) THEN RStrip(SubSeq(s, 1, Len(s) - 1))
    ELSE s

\* str.strip()
Strip(s) == RStrip(LStrip(s))

\* int(x) raises TypeError on None; it succeeds on an int.
IntRaises(x) == x.t = "None"

\* -------------------------------------------------------------------------
\* InitialAnalyzer.analyze
\* -------------------------------------------------------------------------

\* Fixed-point unit of a score: 1.0 is Scale.
Scale == 10000

NoTextContent == <<"N", "o", " ", "t", "e", "x", "t", " ", "c", "o", "n", "t", "e", "n", "t">>

ScoreKeys == {"toxicity", "veracity", "risk_level"}

\* The fallback of lines 102-105 and 126-129.
DegradedResult ==
    [raised |-> FALSE,
     scores |-> [k \in ScoreKeys |-> 0],
     requires_investigation |-> FALSE]

\* An exception that leaves analyze.
Raised(exc) == [raised |-> TRUE, exc |-> exc]

\* Lines 48-54: the formatted data, when no conversion raises.
FormattedData(message_data) ==
    [text |-> LET s == Strip(PyStrOf(Get(message_data, "text", PyStr(<<>>))))
              IN  IF s = <<>> THEN NoTextContent ELSE s,
     channel_name |-> PyStrOf(Get(message_data, "channel_name", PyStr(<<"u">>))),
     has_media |-> Get(message_data, "has_media", FALSE),
     views |-> Get(message_data, "views", PyInt(0)).v,
     forwards |-> Get(message_data, "forwards", PyInt(0)).v]

\* Lines 52-53: int(None) raises TypeError before `prompt` is assigned.
FormatRaises(message_data) ==
    \/ IntRaises(Get(message_data, "views", PyInt(0)))
    \/ IntRaises(Get(message_data, "forwards", PyInt(0)))

\* float(v) of a JSON value: raises on null and on a non-numeric string.
FloatRaises(v) == v.t \in {"None", "str"}

\* Line 109: max(0.0, min(1.0, float(v)))
ClampedScore(v) ==
    LET f == v.v
        lo == IF Scale < f THEN Scale ELSE f
    IN  IF 0 > lo THEN 0 ELSE lo

RequiresInvestigationAtThreshold(scores) ==
    scores["risk_level"] + scores["toxicity"] >= Scale

\* Line 120: scores["risk_level"] + scores["toxicity"] > 1
RequiresInvestigation(scores) ==
    scores["risk_level"] + scores["toxicity"] > Scale

\* Lines 107-121 for a response that parsed to the JSON object `result`.
\* float() raising and the KeyError of line 120 both reach the handler of
\* line 123, where `prompt` is bound.
ParsedResult(result) ==
    LET kept == DOMAIN result \cap ScoreKeys
    IN  IF \E k \in kept : FloatRaises(result[k]) THEN DegradedResult
        ELSE LET scores == [k \in kept |-> ClampedScore(result[k])]
             IN  IF {"risk_level", "toxicity"} \subseteq kept
                 THEN [raised |-> FALSE,
                       scores |-> scores,
                       requires_investigation |-> RequiresInvestigation(scores)]
                 ELSE DegradedResult

\* Lines 42-129. `outcome` is what the external scoring call does:
\*   transport_error  the call of line 70 raises
\*   null_content     the reply's content is None (line 92 raises)
\*   unparsable       json.loads raises JSONDecodeError (lines 98-105)
\*   non_object       the content is JSON but no object (line 110 raises)
\*   object           the content parses to the object outcome.fields
\* A failure before line 58 reaches the handler of line 123 with `prompt`
\* unbound: evaluating the f-string of line 124 raises UnboundLocalError,
\* which leaves analyze.
Analyze(message_data, outcome) ==
    IF FormatRaises(message_data) THEN Raised("UnboundLocalError")
    ELSE IF outcome.kind = "object" THEN ParsedResult(outcome.fields)
    ELSE DegradedResult

\* The prompt text the scorer is sent (line 58), when it is built.
PromptOf(message_data) == FormattedData(message_data)

\* The scoring call of line 70 is reached: no conversion of lines 48-54
\* has raised.
ScorerInvoked(message_data) == ~FormatRaises(message_data)

\* The number of calls of line 70 one analyze call makes.
ScorerCalls(message_data) == IF ScorerInvoked(message_data) THEN 1 ELSE 0

\* -------------------------------------------------------------------------
\* Inputs of analyze
\* -------------------------------------------------------------------------

\* Values a score field of the reply can hold.
JsonNumbers == {PyInt(n) : n \in {0 - 5000, 0, 5000, 5001, 14000}}

JsonValues == JsonNumbers \cup {PyNone, PyStr(<<"x">>)}

\* Every JSON object over the reply's keys.
JsonObjects ==
    UNION {[ks -> JsonValues] : ks \in SUBSET ScoreKeys}
    \cup UNION {{[k \in ks \cup {"reasoning"} |->
                    IF k = "reasoning" THEN PyStr(<<"x">>) ELSE o[k]] :
                 o \in [ks -> JsonValues]} : ks \in SUBSET ScoreKeys}

ScoringOutcomes ==
    {[kind |-> k] : k \in {"transport_error", "null_content", "unparsable", "non_object"}}
    \cup {[kind |-> "object", fields |-> o] : o \in JsonObjects}

TextValues == {PyNone, PyStr(<<>>), PyStr(<<" ", " ">>), PyStr(<<" ", "h", "i">>)}

CounterValues == {PyNone, PyInt(7)}

\* The mappings analyze is called with: each of text, views, forwards
\* absent, null or set.
MessageDataInputs ==
    UNION {UNION {UNION {
        {[k \in (tk \cup vk \cup fk \cup {"channel_name", "has_media"}) |->
            CASE k = "text" -> tx
              [] k = "views" -> vw
              [] k = "forwards" -> fw
              [] k = "channel_name" -> PyStr(<<"c">>)
              [] OTHER -> FALSE] :
         tx \in TextValues, vw \in CounterValues, fw \in CounterValues} :
        tk \in {{}, {"text"}}} : vk \in {{}, {"views"}}} : fk \in {{}, {"forwards"}}}

\* -------------------------------------------------------------------------
\* Channel references and the channel client
\* -------------------------------------------------------------------------

UrlPrefix == <<"h", "t", "t", "p", "s", ":", "/", "/", "t", ".", "m", "e", "/">>

\* str.startswith
StartsWith(s, p) == Len(s) >= Len(p) /\ SubSeq(s, 1, Len(p)) = p

\* s.split(sep)[-1]: what follows the last separator (all of s without one).
RECURSIVE SplitLast(_, _)
SplitLast(s, sep) ==
    IF \E i \in 1..Len(s) : s[i] = sep
    THEN LET i == CHOOSE j \in 1..Len(s) : s[j] = sep
         IN  SplitLast(SubSeq(s, i + 1, Len(s)), sep)
    ELSE s

CleanUsernameUrlOnly(channel_username) ==
    IF StartsWith(channel_username, UrlPrefix) THEN SplitLast(channel_username, "/")
    ELSE channel_username

\* Lines 236-240.
CleanUsername(channel_username) ==
    IF StartsWith(channel_username, UrlPrefix) THEN SplitLast(channel_username, "/")
    ELSE IF StartsWith(channel_username, <<"@">>) THEN Tail(channel_username)
    ELSE channel_username

\* The broadcast channels the channel client knows, by id.
Channels == {1, 2}

ChannelHandle(c) == IF c = 1 THEN <<"e", "x">> ELSE <<"n", "w">>

UserHandle == <<"b", "o", "b">>

\* client.get_entity (line 243): a Channel, another entity (a user), or
\* an exception for a handle that does not resolve.
GetEntity(username) ==
    IF \E c \in Channels : ChannelHandle(c) = username
    THEN [kind |-> "Channel", id |-> CHOOSE c \in Channels : ChannelHandle(c) = username]
    ELSE IF username = UserHandle THEN [kind |-> "User"]
    ELSE [kind |-> "raises"]

\* The references subscribe is called with.
ChannelRefs ==
    {ChannelHandle(1), <<"@">> \o ChannelHandle(1), UrlPrefix \o ChannelHandle(1),
     ChannelHandle(2), UserHandle, <<"@">> \o UserHandle, <<"z">>}

\* channel.username or str(channel.id) (lines 357, 374)
ChannelName(c) == ChannelHandle(c)

\* -------------------------------------------------------------------------
\* Raw messages (telethon Message objects: every attribute exists, an
\* absent value is None)
\* -------------------------------------------------------------------------

PlainRaw ==
    [text |-> PyStr(<<"h", "i">>), views |-> PyInt(7), forwards |-> PyInt(3),
     replies |-> PyNone, media |-> PyNone, edit_date |-> PyNone,
     pinned |-> FALSE, reactions |-> <<>>]

\* A message without counters.
BareRaw ==
    [text |-> PyStr(<<"h", "i">>), views |-> PyNone, forwards |-> PyNone,
     replies |-> PyNone, media |-> PyNone, edit_date |-> PyNone,
     pinned |-> FALSE, reactions |-> <<>>]

\* A photo without caption, with a reply summary and one reaction.
MediaRaw ==
    [text |-> PyNone, views |-> PyInt(7), forwards |-> PyInt(0),
     replies |-> [t |-> "MessageReplies", replies |-> 2],
     media |-> PyStr(<<"P">>), edit_date |-> PyNone,
     pinned |-> TRUE, reactions |-> << [emoticon |-> "+", count |-> 4] >>]

RawSamples == {PlainRaw, BareRaw, MediaRaw}

\* The message a channel posts as its id-th: the sample with its id and date.
RawMessage(sample, id, chat) ==
    [id |-> id, chat_id |-> chat, date |-> id] @@ sample

\* -------------------------------------------------------------------------
\* MediaHandler: TelegramMonitor._handle_media
\* -------------------------------------------------------------------------

MediaOutcomes == {"download_raises", "download_none", "upload_raises", "ok"}

\* Line 308-310: the staging file name, from the message id and its date.
BaseFilename(message) == <<message.id, message.date>>

\* Lines 298-334. `mo` is what download and upload do. Returns the URLs and
\* the staging files the call leaves in the media folder.
HandleMedia(message, mo) ==
    IF message.media = PyNone THEN [urls |-> <<>>, left |-> {}]
    ELSE IF mo \in {"download_raises", "download_none"} THEN [urls |-> <<>>, left |-> {}]
    ELSE IF mo = "upload_raises" THEN [urls |-> <<>>, left |-> {BaseFilename(message)}]
    ELSE [urls |-> << <<message.chat_id, BaseFilename(message)>> >>, left |-> {}]

\* -------------------------------------------------------------------------
\* MessageNormalizer: TelegramMonitor._prepare_message_data
\* -------------------------------------------------------------------------

\* json.dumps of a mapping: a string, not the mapping.
JsonDumps(d) == [form |-> "json_string", value |-> d]

\* datetime.isoformat()
IsoFormat(d) == [form |-> "iso", value |-> d]

\* Lines 364-369.
RepliesCount(message) ==
    IF HasAttr(message, "replies")
    THEN IF HasAttr(message.replies, "replies") THEN message.replies.replies ELSE 0
    ELSE 0

\* Lines 348-351: emoticon -> count.
Reactions(message) ==
    [e \in {message.reactions[i].emoticon : i \in 1..Len(message.reactions)} |->
        (CHOOSE r \in {message.reactions[i] : i \in 1..Len(message.reactions)} :
            r.emoticon = e).count]

\* Lines 354-362: the mapping analyze is called with.
AnalysisInput(message, channel) ==
    [text |-> message.text,
     channel_name |-> PyStr(ChannelName(channel)),
     has_media |-> message.media # PyNone,
     views |-> GetAttr(message, "views", PyInt(0)),
     forwards |-> GetAttr(message, "forwards", PyInt(0))]

TimestampsAllNow(message, now) ==
    [date |-> IsoFormat(now),
     created_at |-> IsoFormat(now),
     edited_at |-> IF message.edit_date # PyNone THEN IsoFormat(now) ELSE PyNone]

\* Lines 375, 384 and 386: the timestamps of the record, from the message
\* and datetime.now().
Timestamps(message, now) ==
    [date |-> IsoFormat(message.date),
     created_at |-> IsoFormat(now),
     edited_at |-> IF message.edit_date # PyNone
                   THEN IsoFormat(message.edit_date.v) ELSE PyNone]

\* Lines 336-394. `mo` and `so` are what the media calls and the scoring
\* call do, `now` is datetime.now(). Returns the record, or the exception
\* of analyze, and the staging files left behind.
PrepareMessageData(message, channel, mo, so, now) ==
    LET media == HandleMedia(message, mo)
        reactions == Reactions(message)
        analysis_result == Analyze(AnalysisInput(message, channel), so)
        timestamps == Timestamps(message, now)
    IN  IF analysis_result.raised
        THEN [raised |-> TRUE, exc |-> analysis_result.exc, left |-> media.left]
        ELSE [raised |-> FALSE,
              left |-> media.left,
              data |->
                [message_id |-> message.id,
                 channel_id |-> channel,
                 channel_name |-> ChannelName(channel),
                 date |-> timestamps.date,
                 text |-> message.text,
                 views |-> GetAttr(message, "views", PyInt(0)),
                 forwards |-> GetAttr(message, "forwards", PyInt(0)),
                 replies |-> RepliesCount(message),
                 has_media |-> message.media # PyNone,
                 media_type |-> message.media,
                 media_urls |-> media.urls,
                 processed |-> FALSE,
                 created_at |-> timestamps.created_at,
                 edited |-> message.edit_date # PyNone,
                 edited_at |-> timestamps.edited_at,
                 is_pinned |-> message.pinned,
                 has_reactions |-> DOMAIN reactions # {},
                 reaction_counts |-> IF DOMAIN reactions # {}
                                     THEN JsonDumps(reactions) ELSE PyNone,
                 initial_scores |-> JsonDumps(analysis_result.scores),
                 requires_investigation |-> analysis_result.requires_investigation]]

\* -------------------------------------------------------------------------
\* State
\* -------------------------------------------------------------------------

VARIABLES
    env,           \* what the collaborators can do in this run
    feed,          \* channel id -> the messages the channel holds, oldest first
    failuresLeft,  \* insert attempts the warehouse still rejects
    bindings,      \* the channel client's push bindings (client.on, line 248)
    handlers,      \* self.handlers (lines 177, 260)
    sub,           \* the subscribe_to_channel call
    tasks,         \* the normalization tasks of the backfill (line 283)
    procs,         \* the push-event handler tasks
    store,         \* the rows of the warehouse table, a bag
    inserts,       \* the _store_messages calls made (line 451)
    media_folder,  \* the staging files in self.media_folder
    clock,         \* datetime.now(): it advances with each call and event
    nSubs,         \* subscribe calls made
    nEvents,       \* push events delivered
    an_input,      \* a method called on its own: its arguments
    an_result,     \* a method called on its own: what the call did
    app            \* the web application: its globals and the requests served

vars ==
    <<env, feed, failuresLeft, bindings, handlers, sub, tasks, procs, store,
      inserts, media_folder, clock, nSubs, nEvents, an_input, an_result, app>>

\* Line 282: iter_messages(channel, limit=10)
BackfillLimit == 10

\* The scoring replies of the runs of Spec: a reply over the threshold, a
\* transport error, a reply without veracity, a reply out of range.
FlaggedReply ==
    [kind |-> "object",
     fields |-> [toxicity |-> PyInt(5001), veracity |-> PyInt(5000),
                 risk_level |-> PyInt(5000), reasoning |-> PyStr(<<"x">>)]]

TransportError == [kind |-> "transport_error"]

NoVeracityReply ==
    [kind |-> "object",
     fields |-> [toxicity |-> PyInt(5000), risk_level |-> PyInt(5000)]]

OutOfRangeReply ==
    [kind |-> "object",
     fields |-> [toxicity |-> PyInt(14000), veracity |-> PyInt(0 - 5000),
                 risk_level |-> PyInt(0)]]

\* What the collaborators do in one run of Spec: the messages the channels
\* post, what the scoring capability replies to a call, what the media
\* calls do.
EnvProfiles ==
    {[raws |-> {PlainRaw}, outcomes |-> {o}, medias |-> {"ok"}] :
        o \in {FlaggedReply, TransportError, NoVeracityReply, OutOfRangeReply}}
    \cup {[raws |-> {MediaRaw}, outcomes |-> {o}, medias |-> {m}] :
            o \in {FlaggedReply, NoVeracityReply}, m \in {"ok", "upload_raises"}}
    \cup {[raws |-> {PlainRaw, BareRaw}, outcomes |-> {FlaggedReply}, medias |-> {"ok"}]}

Idle == [pc |-> "idle"]

\* The call has returned (ok, detail) (lines 245, 265, 269); `entity` is
\* what get_entity gave and `chan` the channel it resolved (0: none).
Returned(entity, chan, ok, detail) ==
    [pc |-> "returned", entity |-> entity, chan |-> chan, ok |-> ok, detail |-> detail]

NotCalled == [called |-> FALSE]

\* The monitor built on its own, outside the web application.
NoApp == [phase |-> "none"]

NoInput == [given |-> FALSE]

\* All sequences over S of length at most n.
SeqsUpTo(S, n) == UNION {[1..k -> S] : k \in 0..n}

\* The state after TelegramMonitor.__init__ (lines 163-178), with the
\* environment of the run.
InitMonitor ==
    /\ bindings = <<>>
    /\ handlers = <<>>
    /\ sub = Idle
    /\ tasks = <<>>
    /\ procs = <<>>
    /\ store = EmptyBag
    /\ inserts = {}
    /\ media_folder = {}
    /\ clock = 0
    /\ nSubs = 0
    /\ nEvents = 0
    /\ app = NoApp

Init ==
    /\ InitMonitor
    /\ env \in EnvProfiles
    /\ \E samples \in SeqsUpTo(env.raws, MaxHistory) :
          feed = [c \in Channels |->
                    IF c = 1 THEN [i \in 1..Len(samples) |-> RawMessage(samples[i], i, c)]
                    ELSE <<>>]
    /\ failuresLeft \in 0..MaxInsertFailures
    /\ an_input = NoInput
    /\ an_result = NotCalled

\* -------------------------------------------------------------------------
\* ChannelSubscription: TelegramMonitor.subscribe_to_channel
\* -------------------------------------------------------------------------

\* Lines 247-260: the push bindings a successful resolution registers. The
\* edited-message binding of lines 254-257 is commented out.
RegisteredBindings(channel) == << [event |-> "new", chan |-> channel] >>

ResolveStepUnregistered(entity) ==
    IF entity.kind = "raises"
    THEN [returns |-> TRUE, detail |-> "get_entity raised", registers |-> <<>>, chan |-> 0]
    ELSE IF entity.kind # "Channel"
    THEN [returns |-> TRUE, detail |-> "Not a valid channel", registers |-> <<>>, chan |-> 0]
    ELSE [returns |-> FALSE, registers |-> <<>>, chan |-> entity.id]

ResolveStepUnchecked(entity) ==
    IF entity.kind = "raises"
    THEN [returns |-> TRUE, detail |-> "get_entity raised", registers |-> <<>>, chan |-> 0]
    ELSE IF entity.kind # "Channel"
    THEN [returns |-> TRUE, detail |-> "Not a valid channel",
          registers |-> RegisteredBindings(0), chan |-> 0]
    ELSE [returns |-> FALSE, registers |-> <<>>, chan |-> entity.id]

\* Lines 243-260: what the call does with the entity get_entity gave (or
\* with its exception): return (False, reason), or register the bindings
\* and go on to the backfill.
ResolveStep(entity) ==
    IF entity.kind = "raises"
    THEN [returns |-> TRUE, detail |-> "get_entity raised", registers |-> <<>>, chan |-> 0]
    ELSE IF entity.kind # "Channel"
    THEN [returns |-> TRUE, detail |-> "Not a valid channel", registers |-> <<>>, chan |-> 0]
    ELSE [returns |-> FALSE, registers |-> RegisteredBindings(entity.id), chan |-> entity.id]

\* Lines 230-263 up to the first step of the backfill: the reference is
\* cleaned and resolved, the bindings are registered.
Subscribe(ref) ==
    /\ sub.pc \in {"idle", "returned"}
    /\ nSubs + nEvents < MaxCalls
    /\ \A i \in 1..Len(tasks) : tasks[i].state # "pending"
    /\ nSubs' = nSubs + 1
    /\ clock' = clock + 1
    /\ LET entity == GetEntity(CleanUsername(ref))
           step == ResolveStep(entity)
       IN  /\ bindings' = bindings \o step.registers
           /\ handlers' = handlers \o step.registers
           /\ IF step.returns
              THEN /\ sub' = Returned(entity.kind, step.chan, FALSE, step.detail)
                   /\ UNCHANGED tasks
              ELSE /\ sub' = [pc |-> "iterating", entity |-> entity.kind, chan |-> step.chan]
                   /\ tasks' = <<>>
    /\ UNCHANGED <<app, env, feed, failuresLeft, procs, store, inserts, media_folder,
                   nEvents, an_input, an_result>>

\* iter_messages(channel, limit): the newest `limit` messages, newest first.
IterMessages(channel, limit) ==
    LET all == feed[channel]
        n == IF Len(all) < limit THEN Len(all) ELSE limit
    IN  [i \in 1..n |-> all[Len(all) + 1 - i]]

\* Lines 278-284 and 287: the iteration creates one task per message; it
\* can raise after any number of them. With no task nothing is stored.
BackfillFetch ==
    /\ sub.pc = "iterating"
    /\ LET messages == IterMessages(sub.chan, BackfillLimit)
       IN  \E k \in 0..Len(messages), raises \in BOOLEAN :
              /\ ~raises => k = Len(messages)
              /\ tasks' = [i \in 1..k |->
                             [message |-> messages[i], chan |-> sub.chan, state |-> "pending"]]
              /\ sub' = IF raises
                        THEN Returned("Channel", sub.chan, FALSE, "iter_messages raised")
                        ELSE IF k = 0
                        THEN Returned("Channel", sub.chan, TRUE, "Successfully subscribed")
                        ELSE [pc |-> "gathering", chan |-> sub.chan]
    /\ UNCHANGED <<app, env, feed, failuresLeft, bindings, handlers, procs, store, inserts,
                   media_folder, clock, nSubs, nEvents, an_input, an_result>>

\* The media outcomes that apply to a message.
MediaChoices(message) == IF message.media = PyNone THEN {"ok"} ELSE env.medias

\* One task of line 283 runs _prepare_message_data to its end.
NormalizeTask(i) ==
    /\ i \in 1..Len(tasks)
    /\ tasks[i].state = "pending"
    /\ \E mo \in MediaChoices(tasks[i].message), so \in env.outcomes :
          LET r == PrepareMessageData(tasks[i].message, tasks[i].chan, mo, so, clock)
          IN  /\ tasks' = [tasks EXCEPT ![i] =
                              IF r.raised
                              THEN [message |-> @.message, chan |-> @.chan,
                                    state |-> "failed", exc |-> r.exc]
                              ELSE [message |-> @.message, chan |-> @.chan,
                                    state |-> "done", data |-> r.data]]
              /\ media_folder' = media_folder \cup r.left
    /\ UNCHANGED <<app, env, feed, failuresLeft, bindings, handlers, sub, procs, store,
                   inserts, clock, nSubs, nEvents, an_input, an_result>>

\* -------------------------------------------------------------------------
\* Store: TelegramMonitor._store_messages
\* -------------------------------------------------------------------------

StoreDecisionRetrying(inserted) == IF inserted THEN "return" ELSE "retry"

\* Lines 450-466: what follows one insert attempt. The decorator of line
\* 450 is the synchronous Retry: it calls the coroutine function, gets the
\* coroutine object without an exception and returns it, so the body runs
\* once, when the caller awaits it, and its exception goes to the caller.
StoreDecision(inserted) == IF inserted THEN "return" ELSE "raise"

\* Lines 457-462: the insert_rows_json calls of one _store_messages call
\* that starts with the warehouse rejecting the next `rejecting` attempts
\* (by an exception or by a per-row error list: both raise, lines 460-466).
\* The body has no suspension point: the call runs to its end in one step.
RECURSIVE StoreAttempts(_)
StoreAttempts(rejecting) ==
    LET decision == StoreDecision(rejecting = 0)
    IN  IF decision = "retry"
        THEN LET rest == StoreAttempts(rejecting - 1)
             IN  [attempts |-> rest.attempts + 1, ok |-> rest.ok]
        ELSE [attempts |-> 1, ok |-> decision = "return"]

\* The rows of a batch as a bag.
RECURSIVE RowsBag(_)
RowsBag(rows) ==
    IF rows = <<>> THEN EmptyBag ELSE SetToBag({Head(rows)}) (+) RowsBag(Tail(rows))

\* The warehouse and the log of calls, as one value.
Warehouse == [store |-> store, inserts |-> inserts, failuresLeft |-> failuresLeft, raised |-> FALSE]

\* One _store_messages(rows) call (lines 451-466) on the warehouse w: each
\* failed attempt uses up one rejection.
StoreMessages(w, caller, rows) ==
    LET run == StoreAttempts(w.failuresLeft)
        failed == IF run.ok THEN run.attempts - 1 ELSE run.attempts
        left == w.failuresLeft - failed
    IN  [store |-> IF run.ok THEN w.store (+) RowsBag(rows) ELSE w.store,
         inserts |-> w.inserts \cup
                       {[caller |-> caller, rows |-> rows, attempts |-> run.attempts,
                         ok |-> run.ok, failuresLeft |-> left]},
         failuresLeft |-> left,
         raised |-> ~run.ok]

BackfillBatchesPerMessage(results) == [i \in 1..Len(results) |-> << results[i] >>]

\* Lines 288-290: the batches _load_recent_messages stores: one, holding
\* every result.
BackfillBatches(results) == << results >>

\* The _store_messages calls for the batches from the k-th on, until one
\* raises.
RECURSIVE StoreBatches(_, _, _, _)
StoreBatches(w, batches, k, n) ==
    IF k > Len(batches) \/ w.raised THEN w
    ELSE StoreBatches(StoreMessages(w, <<"backfill", n, k>>, batches[k]), batches, k + 1, n)

GatherRaisesNever(ts) == FALSE

\* Line 288: asyncio.gather (return_exceptions is False) raises the first
\* exception of a task as soon as that task fails.
GatherRaises(ts) == \E i \in 1..Len(ts) : ts[i].state = "failed"

GatherReturnsAtFirstResult(ts) == \E i \in 1..Len(ts) : ts[i].state = "done"

\* Line 288: asyncio.gather returns once no task is still running.
GatherReturns(ts) == \A i \in 1..Len(ts) : ts[i].state # "pending"

\* Line 288: the results gather returns, in the order of the tasks.
GatherResults(ts) ==
    LET finished == SelectSeq(ts, LAMBDA t : t.state = "done")
    IN  [i \in 1..Len(finished) |-> finished[i].data]

\* Lines 288-292, then line 265 or lines 267-269. gather raises the first
\* exception of a task; once every task is done it returns their results,
\* and the call stores them and returns without another suspension point.
GatherAndStore ==
    /\ sub.pc = "gathering"
    /\ \/ /\ GatherRaises(tasks)
          /\ sub' = Returned("Channel", sub.chan, FALSE, "normalization raised")
          /\ UNCHANGED <<failuresLeft, store, inserts>>
       \/ /\ ~GatherRaises(tasks)
          /\ GatherReturns(tasks)
          /\ LET batch_results == GatherResults(tasks)
                 w == StoreBatches(Warehouse, BackfillBatches(batch_results), 1, nSubs)
             IN  /\ store' = w.store
                 /\ inserts' = w.inserts
                 /\ failuresLeft' = w.failuresLeft
                 /\ sub' = IF w.raised
                           THEN Returned("Channel", sub.chan, FALSE, "Failed to insert rows")
                           ELSE Returned("Channel", sub.chan, TRUE, "Successfully subscribed")
    /\ UNCHANGED <<app, env, feed, bindings, handlers, tasks, procs, media_folder, clock,
                   nSubs, nEvents, an_input, an_result>>

\* -------------------------------------------------------------------------
\* Push events
\* -------------------------------------------------------------------------

\* The handler tasks the channel client starts for an event: one per
\* binding of that event kind scoped to the channel.
Dispatch(event, channel, message) ==
    LET hit == SelectSeq(bindings, LAMBDA b : b.event = event /\ b.chan = channel)
    IN  [i \in 1..Len(hit) |->
            [event |-> event, chan |-> channel, message |-> message, pc |-> "prepare",
             scored |-> 0]]

\* A channel posts a message: the new-message event goes to its bindings
\* (lines 248-251).
NewMessageEvent(c) ==
    /\ nEvents' = nEvents + 1
    /\ clock' = clock + 1
    /\ \E sample \in env.raws :
          LET message == RawMessage(sample, Len(feed[c]) + 1, c)
          IN  /\ feed' = [feed EXCEPT ![c] = Append(@, message)]
              /\ procs' = procs \o Dispatch("new", c, message)
    /\ UNCHANGED <<app, env, failuresLeft, bindings, handlers, sub, tasks, store, inserts,
                   media_folder, nSubs, an_input, an_result>>

\* The new-message events of the runs of Spec.
PostNewMessage(c) ==
    /\ nSubs + nEvents < MaxCalls
    /\ NewMessageEvent(c)

\* A channel edits one of its messages: the edited-message event goes to
\* the bindings of that kind.
EditedMessageEvent(c) ==
    /\ nEvents' = nEvents + 1
    /\ clock' = clock + 1
    /\ \E i \in 1..Len(feed[c]) :
          LET message == [feed[c][i] EXCEPT !.text = PyStr(<<"e", "d">>),
                                            !.edit_date = PyInt(clock)]
          IN  /\ feed' = [feed EXCEPT ![c][i] = message]
              /\ procs' = procs \o Dispatch("edited", c, message)
    /\ UNCHANGED <<app, env, failuresLeft, bindings, handlers, sub, tasks, store, inserts,
                   media_folder, nSubs, an_input, an_result>>

\* The edited-message events of the runs of Spec.
PostEditedMessage(c) ==
    /\ nSubs + nEvents < MaxCalls
    /\ EditedMessageEvent(c)

\* Line 523: the mapping the second analyze call reads from the record.
AnalysisInputOfData(data) ==
    [text |-> data.text,
     channel_name |-> PyStr(data.channel_name),
     has_media |-> data.has_media,
     views |-> data.views,
     forwards |-> data.forwards]

\* Lines 524-525 of _process_message.
WithAnalysis(data, analysis_result) ==
    [data EXCEPT !.initial_scores = [form |-> "dict", value |-> analysis_result.scores],
                 !.requires_investigation = analysis_result.requires_investigation]

ProcessExceptReraising(proc, exc) ==
    [event |-> proc.event, chan |-> proc.chan, message |-> proc.message,
     pc |-> "raised", logged |-> exc, scored |-> proc.scored]

\* Lines 535-536 of _process_message: `except Exception` logs the error and
\* the handler returns.
ProcessExcept(proc, exc) ==
    [event |-> proc.event, chan |-> proc.chan, message |-> proc.message,
     pc |-> "done", logged |-> exc, scored |-> proc.scored]

\* Line 520 of _process_message; an exception ends the handler (line 535).
ProcessPrepare(p) ==
    /\ p \in 1..Len(procs)
    /\ procs[p].event = "new"
    /\ procs[p].pc = "prepare"
    /\ \E mo \in MediaChoices(procs[p].message), so \in env.outcomes :
          LET r == PrepareMessageData(procs[p].message, procs[p].chan, mo, so, clock)
          IN  /\ procs' = [procs EXCEPT ![p] =
                              IF r.raised
                              THEN ProcessExcept(@, r.exc)
                              ELSE [event |-> @.event, chan |-> @.chan, message |-> @.message,
                                    pc |-> "analyze", data |-> r.data,
                                    scored |-> @.scored + ScorerCalls(
                                        AnalysisInput(@.message, @.chan))]]
              /\ media_folder' = media_folder \cup r.left
    /\ UNCHANGED <<app, env, feed, failuresLeft, bindings, handlers, sub, tasks, store,
                   inserts, clock, nSubs, nEvents, an_input, an_result>>

\* Lines 523-536 of _process_message: the second analyze call returns, and
\* the handler stores the record and ends without another suspension point.
ProcessAnalyzeAndStore(p) ==
    /\ p \in 1..Len(procs)
    /\ procs[p].pc = "analyze"
    /\ \E so \in env.outcomes :
          LET analysis_result == Analyze(AnalysisInputOfData(procs[p].data), so)
          IN  IF analysis_result.raised
              THEN /\ procs' = [procs EXCEPT ![p] = ProcessExcept(@, analysis_result.exc)]
                   /\ UNCHANGED <<failuresLeft, store, inserts>>
              ELSE LET w == StoreMessages(Warehouse, <<"push", p, 1>>,
                                          << WithAnalysis(procs[p].data, analysis_result) >>)
                       scored == procs[p].scored
                                   + ScorerCalls(AnalysisInputOfData(procs[p].data))
                   IN  /\ store' = w.store
                       /\ inserts' = w.inserts
                       /\ failuresLeft' = w.failuresLeft
                       /\ procs' = [procs EXCEPT ![p] =
                                       IF w.raised
                                       THEN ProcessExcept([@ EXCEPT !.scored = scored],
                                                          "Failed to insert rows")
                                       ELSE [event |-> @.event, chan |-> @.chan,
                                             message |-> @.message, pc |-> "done",
                                             logged |-> "none", scored |-> scored]]
    /\ UNCHANGED <<app, env, feed, bindings, handlers, sub, tasks, media_folder, clock,
                   nSubs, nEvents, an_input, an_result>>

\* -------------------------------------------------------------------------
\* EditReconciler: TelegramMonitor._handle_edited_message
\* -------------------------------------------------------------------------

UpdatedColumnsWithScores ==
    {"text", "views", "forwards", "replies", "edited", "edited_at", "has_reactions",
     "reaction_counts", "initial_scores", "requires_investigation"}

\* Lines 403-411: the columns the UPDATE sets.
UpdatedColumns ==
    {"text", "views", "forwards", "replies", "edited", "edited_at", "has_reactions",
     "reaction_counts"}

UpdateWhereMessageOnly(row, data) == row.message_id = data.message_id

\* Line 412: WHERE message_id = @message_id AND channel_id = @channel_id
UpdateWhere(row, data) ==
    row.message_id = data.message_id /\ row.channel_id = data.channel_id

\* A row after the UPDATE of lines 401-413 with the parameters of lines
\* 415-442.
UpdatedRow(row, data) ==
    IF UpdateWhere(row, data)
    THEN [f \in DOMAIN row |-> IF f \in UpdatedColumns THEN data[f] ELSE row[f]]
    ELSE row

\* The number of rows of the table among the distinct rows `rows`.
RECURSIVE CountRows(_, _)
CountRows(table, rows) ==
    IF rows = {} THEN 0
    ELSE LET r == CHOOSE x \in rows : TRUE
         IN  CopiesIn(r, table) + CountRows(table, rows \ {r})

\* The table after the UPDATE (lines 444-445).
UpdateRows(table, data) ==
    LET rows == BagToSet(table)
    IN  [u \in {UpdatedRow(r, data) : r \in rows} |->
            CountRows(table, {r \in rows : UpdatedRow(r, data) = u})]

\* The rows the UPDATE matches.
MatchedRows(table, data) ==
    CountRows(table, {r \in BagToSet(table) : UpdateWhere(r, data)})

EditExceptReraising(proc, exc) ==
    [event |-> proc.event, chan |-> proc.chan, message |-> proc.message,
     pc |-> "raised", logged |-> exc, attempts |-> proc.attempts, matched |-> 0]

\* Lines 447-448: `except Exception` logs the error and the call returns.
EditExcept(proc, exc) ==
    [event |-> proc.event, chan |-> proc.chan, message |-> proc.message,
     pc |-> "done", logged |-> exc, attempts |-> proc.attempts, matched |-> 0]

\* What the update query does (lines 444-445).
QueryOutcomes == {"ok", "raises"}

\* Lines 396-448: channel c has edited its i-th message (new text, an edit
\* date, a views counter that is set or null) and _handle_edited_message is
\* called with it. The table is touched by the query alone, after the last
\* suspension point of the call.
HandleEditedMessage(c, i) ==
    /\ i \in 1..Len(feed[c])
    /\ clock' = clock + 1
    /\ \E views \in {PyInt(9), PyNone}, qo \in QueryOutcomes :
        \E mo \in MediaChoices(feed[c][i]), so \in env.outcomes :
          LET message == [feed[c][i] EXCEPT !.text = PyStr(<<"e", "d">>),
                                            !.edit_date = PyInt(clock),
                                            !.views = views]
              r == PrepareMessageData(message, c, mo, so, clock)
              call == [event |-> "edited", chan |-> c, message |-> message]
          IN  /\ feed' = [feed EXCEPT ![c][i] = message]
              /\ media_folder' = media_folder \cup r.left
              /\ IF r.raised
                 THEN /\ procs' = Append(procs, EditExcept(call @@ [attempts |-> 0], r.exc))
                      /\ UNCHANGED store
                 ELSE IF qo = "raises"
                 THEN /\ procs' = Append(procs, EditExcept(call @@ [attempts |-> 1],
                                                           "query raised"))
                      /\ UNCHANGED store
                 ELSE /\ procs' = Append(procs,
                                        call @@ [pc |-> "done", logged |-> "none",
                                                 attempts |-> 1,
                                                 matched |-> MatchedRows(store, r.data)])
                      /\ store' = UpdateRows(store, r.data)
    /\ UNCHANGED <<app, env, failuresLeft, bindings, handlers, sub, tasks, inserts, nSubs,
                   nEvents, an_input, an_result>>

\* -------------------------------------------------------------------------
\* Reads: get_recent_messages and get_last_messages
\* -------------------------------------------------------------------------

\* ORDER BY date DESC (lines 476, 495): the rows of the table, newest first.
RECURSIVE OrderByDateDesc(_)
OrderByDateDesc(table) ==
    IF table = EmptyBag THEN <<>>
    ELSE LET newest == CHOOSE r \in BagToSet(table) :
                          \A o \in BagToSet(table) : r.date.value >= o.date.value
         IN  <<newest>> \o OrderByDateDesc(table (-) SetToBag({newest}))

\* Lines 472-477: the rows whose date is within `hours` of now.
RecentQuery(table, hours, now) ==
    SelectSeq(OrderByDateDesc(table), LAMBDA r : r.date.value >= now - hours)

\* Lines 489-497: the newest `limit` rows, each with the three scores
\* extracted from its initial_scores.
LastQuery(table, limit) ==
    LET rows == OrderByDateDesc(table)
        n == IF Len(rows) < limit THEN Len(rows) ELSE limit
    IN  [i \in 1..n |->
            rows[i] @@ [k \in {"toxicity_score", "veracity_score", "risk_level"} |->
                          Get(rows[i].initial_scores.value,
                              CASE k = "toxicity_score" -> "toxicity"
                                [] k = "veracity_score" -> "veracity"
                                [] OTHER -> "risk_level",
                              PyNone)]]

\* json.loads raises TypeError on a value that is no string.
JsonLoadsRaises(x) == x.form # "json_string"

\* json.loads of a string produced by json.dumps.
JsonLoads(x) == [form |-> "dict", value |-> x.value]

RecentExceptReraising(exc) == [raised |-> TRUE, result |-> <<>>, logged |-> exc]

\* Lines 484-486 of get_recent_messages.
RecentExcept(exc) == [raised |-> FALSE, result |-> <<>>, logged |-> exc]

\* Lines 510-512 of get_last_messages.
LastExcept(exc) == [raised |-> FALSE, result |-> <<>>, logged |-> exc]

\* Lines 468-486; qo is what the query does.
GetRecentMessagesResult(table, hours, now, qo) ==
    IF qo = "raises" THEN RecentExcept("query raised")
    ELSE [raised |-> FALSE, result |-> RecentQuery(table, hours, now), logged |-> "none"]

\* Lines 488-512; qo is what the query does.
GetLastMessagesResult(table, limit, qo) ==
    IF qo = "raises" THEN LastExcept("query raised")
    ELSE LET rows == LastQuery(table, limit)
         IN  IF \E i \in 1..Len(rows) : JsonLoadsRaises(rows[i].initial_scores)
             THEN LastExcept("TypeError")
             ELSE [raised |-> FALSE,
                   result |-> [i \in 1..Len(rows) |->
                                 [rows[i] EXCEPT !.initial_scores = JsonLoads(@)]],
                   logged |-> "none"]

\* The read calls made so far.
ReadsMade == Len(an_result.reads)

\* get_recent_messages(hours) is called.
GetRecentMessages(hours) ==
    /\ \E qo \in QueryOutcomes :
          an_result' = [called |-> TRUE,
                        reads |-> Append(an_result.reads,
                                    [method |-> "get_recent_messages", qo |-> qo]
                                    @@ GetRecentMessagesResult(store, hours, clock, qo))]
    /\ UNCHANGED <<app, env, feed, failuresLeft, bindings, handlers, sub, tasks, procs, store,
                   inserts, media_folder, clock, nSubs, nEvents, an_input>>

\* get_last_messages(limit) is called.
GetLastMessages(limit) ==
    /\ \E qo \in QueryOutcomes :
          an_result' = [called |-> TRUE,
                        reads |-> Append(an_result.reads,
                                    [method |-> "get_last_messages", qo |-> qo]
                                    @@ GetLastMessagesResult(store, limit, qo))]
    /\ UNCHANGED <<app, env, feed, failuresLeft, bindings, handlers, sub, tasks, procs, store,
                   inserts, media_folder, clock, nSubs, nEvents, an_input>>

\* -------------------------------------------------------------------------
\* Specifications
\* -------------------------------------------------------------------------

Next ==
    \/ \E ref \in ChannelRefs : Subscribe(ref)
    \/ BackfillFetch
    \/ \E i \in DOMAIN tasks : NormalizeTask(i)
    \/ GatherAndStore
    \/ \E c \in Channels : PostNewMessage(c)
    \/ \E c \in Channels : PostEditedMessage(c)
    \/ \E p \in DOMAIN procs : ProcessPrepare(p)
    \/ \E p \in DOMAIN procs : ProcessAnalyzeAndStore(p)

\* The monitor with its collaborators.
Spec == Init /\ [][Next]_vars

\* analyze alone, on every input mapping and every reply.
InitAnalyze ==
    /\ InitMonitor
    /\ env = [raws |-> {}, outcomes |-> {}, medias |-> {}]
    /\ feed = [c \in Channels |-> <<>>]
    /\ failuresLeft = 0
    /\ an_input \in {[given |-> TRUE, message_data |-> md, outcome |-> o] :
                        md \in MessageDataInputs, o \in ScoringOutcomes}
    /\ an_result = NotCalled

AnalyzeCall ==
    /\ an_input.given
    /\ ~an_result.called
    /\ an_result' = [called |-> TRUE,
                     result |-> Analyze(an_input.message_data, an_input.outcome)]
    /\ UNCHANGED <<app, env, feed, failuresLeft, bindings, handlers, sub, tasks, procs, store,
                   inserts, media_folder, clock, nSubs, nEvents, an_input>>

NextAnalyze == AnalyzeCall

SpecAnalyze == InitAnalyze /\ [][NextAnalyze]_vars

\* One subscribe_to_channel call alone, on a channel that holds one message,
\* as many as the backfill takes, or one more.
InitBackfill ==
    /\ InitMonitor
    /\ env = [raws |-> {PlainRaw}, outcomes |-> {FlaggedReply}, medias |-> {"ok"}]
    /\ \E n \in {1, BackfillLimit, BackfillLimit + 1} :
          feed = [c \in Channels |->
                    IF c = 1 THEN [i \in 1..n |-> RawMessage(PlainRaw, i, c)] ELSE <<>>]
    /\ failuresLeft \in 0..MaxInsertFailures
    /\ an_input = NoInput
    /\ an_result = NotCalled

NextBackfill ==
    \/ \E ref \in ChannelRefs : nSubs = 0 /\ Subscribe(ref)
    \/ BackfillFetch
    \/ \E i \in DOMAIN tasks : NormalizeTask(i)
    \/ GatherAndStore

SpecBackfill == InitBackfill /\ [][NextBackfill]_vars

\* One subscription of channel 1, which starts empty, and the new-message
\* events that follow its return: messages with and without counters, a
\* warehouse that rejects some inserts.
InitPush ==
    /\ InitMonitor
    /\ env = [raws |-> {PlainRaw, BareRaw}, outcomes |-> {FlaggedReply}, medias |-> {"ok"}]
    /\ feed = [c \in Channels |-> <<>>]
    /\ failuresLeft \in 0..MaxInsertFailures
    /\ an_input = NoInput
    /\ an_result = NotCalled

NextPush ==
    \/ \E ref \in ChannelRefs :
          nSubs = 0 /\ CleanUsername(ref) = ChannelHandle(1) /\ Subscribe(ref)
    \/ BackfillFetch
    \/ sub.pc = "returned" /\ nEvents < MaxPushEvents /\ NewMessageEvent(1)
    \/ \E p \in DOMAIN procs : ProcessPrepare(p)
    \/ \E p \in DOMAIN procs : ProcessAnalyzeAndStore(p)

SpecPush == InitPush /\ [][NextPush]_vars

\* The characters of a handle.
HandleChars == {"e", "x", "_"}

ExampleHandle == <<"e", "x", "a", "m", "p", "l", "e">>

\* The handles subscribe is called with in SpecClean.
Handles == (SeqsUpTo(HandleChars, MaxHandleLen) \ {<<>>}) \cup {ExampleHandle}

\* The three ways of writing a handle (lines 236-240).
RefForms == {"bare", "at", "url"}

RefOf(handle, form) ==
    CASE form = "bare" -> handle
      [] form = "at" -> <<"@">> \o handle
      [] form = "url" -> UrlPrefix \o handle

\* The clean-up of lines 236-240 and the resolution of line 243 alone, on
\* every handle in every form.
InitClean ==
    /\ InitMonitor
    /\ env = [raws |-> {}, outcomes |-> {}, medias |-> {}]
    /\ feed = [c \in Channels |-> <<>>]
    /\ failuresLeft = 0
    /\ an_input \in {[given |-> TRUE, handle |-> h, form |-> f] :
                        h \in Handles, f \in RefForms}
    /\ an_result = NotCalled

CleanCall ==
    /\ an_input.given
    /\ ~an_result.called
    /\ LET channel_username == CleanUsername(RefOf(an_input.handle, an_input.form))
       IN  an_result' = [called |-> TRUE,
                         channel_username |-> channel_username,
                         entity |-> GetEntity(channel_username).kind]
    /\ UNCHANGED <<app, env, feed, failuresLeft, bindings, handlers, sub, tasks, procs, store,
                   inserts, media_folder, clock, nSubs, nEvents, an_input>>

NextClean == CleanCall

SpecClean == InitClean /\ [][NextClean]_vars

\* The raw messages _prepare_message_data is called with on its own: each
\* of views, forwards and the reply summary missing, null or set (the reply
\* summary also without its count), with and without an attachment.
NormalizeInputs ==
    UNION {UNION {UNION {
        {[k \in (vk \cup fk \cup rk
                  \cup {"id", "chat_id", "date", "text", "media", "edit_date", "pinned",
                        "reactions"}) |->
            CASE k = "views" -> vw
              [] k = "forwards" -> fw
              [] k = "replies" -> rp
              [] k = "media" -> md
              [] k = "text" -> PyStr(<<"h", "i">>)
              [] k = "edit_date" -> PyNone
              [] k = "pinned" -> FALSE
              [] k = "reactions" -> <<>>
              [] OTHER -> 1] :
         vw \in {PyNone, PyInt(7)}, fw \in {PyNone, PyInt(3)},
         rp \in {PyNone, [t |-> "MessageReplies"], [t |-> "MessageReplies", replies |-> 2]},
         md \in {PyNone, PyStr(<<"P">>)}} :
        vk \in {{}, {"views"}}} : fk \in {{}, {"forwards"}}} : rk \in {{}, {"replies"}}}

\* _prepare_message_data alone, twice on the same raw message and channel,
\* with a scoring capability that gives the same reply to every call.
InitNormalize ==
    /\ InitMonitor
    /\ \E so \in {FlaggedReply, TransportError} :
          env = [raws |-> {}, outcomes |-> {so}, medias |-> MediaOutcomes]
    /\ feed = [c \in Channels |-> <<>>]
    /\ failuresLeft = 0
    /\ an_input \in {[given |-> TRUE, message |-> m, channel |-> 1] : m \in NormalizeInputs}
    /\ an_result = [called |-> FALSE, runs |-> <<>>]

PrepareCall ==
    /\ an_input.given
    /\ Len(an_result.runs) < 2
    /\ clock' = clock + 1
    /\ \E mo \in MediaChoices(an_input.message), so \in env.outcomes :
          LET r == PrepareMessageData(an_input.message, an_input.channel, mo, so, clock)
          IN  /\ an_result' = [called |-> TRUE,
                               runs |-> Append(an_result.runs, [mo |-> mo, result |-> r])]
              /\ media_folder' = media_folder \cup r.left
    /\ UNCHANGED <<app, env, feed, failuresLeft, bindings, handlers, sub, tasks, procs, store,
                   inserts, nSubs, nEvents, an_input>>

NextNormalize == PrepareCall

SpecNormalize == InitNormalize /\ [][NextNormalize]_vars

\* _handle_edited_message called on its own, after one subscription: channel
\* 1 holds two messages, channel 2 one that is never stored.
InitEdit ==
    /\ InitMonitor
    /\ env = [raws |-> {PlainRaw, MediaRaw}, outcomes |-> {FlaggedReply, OutOfRangeReply},
              medias |-> {"ok"}]
    /\ feed = [c \in Channels |->
                 IF c = 1 THEN << RawMessage(PlainRaw, 1, c), RawMessage(MediaRaw, 2, c) >>
                 ELSE << RawMessage(PlainRaw, 1, c) >>]
    /\ failuresLeft \in 0..MaxInsertFailures
    /\ an_input = NoInput
    /\ an_result = NotCalled

EditsMade == Cardinality({p \in DOMAIN procs : procs[p].event = "edited"})

NextEdit ==
    \/ \E ref \in ChannelRefs :
          nSubs = 0 /\ CleanUsername(ref) = ChannelHandle(1) /\ Subscribe(ref)
    \/ BackfillFetch
    \/ \E i \in DOMAIN tasks : NormalizeTask(i)
    \/ GatherAndStore
    \/ \E c \in Channels, i \in 1..2 :
          sub.pc = "returned" /\ EditsMade < MaxEdits /\ HandleEditedMessage(c, i)

SpecEdit == InitEdit /\ [][NextEdit]_vars

\* The reads called on their own, around one subscription of channel 1,
\* which holds two messages, and one new-message event after it.
InitRead ==
    /\ InitMonitor
    /\ env = [raws |-> {PlainRaw}, outcomes |-> {FlaggedReply}, medias |-> {"ok"}]
    /\ feed = [c \in Channels |->
                 IF c = 1 THEN [i \in 1..2 |-> RawMessage(PlainRaw, i, c)] ELSE <<>>]
    /\ failuresLeft \in 0..MaxInsertFailures
    /\ an_input = NoInput
    /\ an_result = [called |-> FALSE, reads |-> <<>>]

NextRead ==
    \/ \E ref \in ChannelRefs :
          nSubs = 0 /\ CleanUsername(ref) = ChannelHandle(1) /\ Subscribe(ref)
    \/ BackfillFetch
    \/ \E i \in DOMAIN tasks : NormalizeTask(i)
    \/ GatherAndStore
    \/ sub.pc = "returned" /\ nEvents < 1 /\ NewMessageEvent(1)
    \/ \E p \in DOMAIN procs : ProcessPrepare(p)
    \/ \E p \in DOMAIN procs : ProcessAnalyzeAndStore(p)
    \/ \E hours \in {1, 3} : ReadsMade < MaxReads /\ GetRecentMessages(hours)
    \/ \E limit \in {1, 10} : ReadsMade < MaxReads /\ GetLastMessages(limit)

SpecRead == InitRead /\ [][NextRead]_vars

\* One subscription of channel 1, which holds one or two messages, and the
\* edited-message events the channel client delivers after its return.
InitEditEvents ==
    /\ InitMonitor
    /\ env = [raws |-> {PlainRaw}, outcomes |-> {FlaggedReply}, medias |-> {"ok"}]
    /\ \E n \in 1..2 :
          feed = [c \in Channels |->
                    IF c = 1 THEN [i \in 1..n |-> RawMessage(PlainRaw, i, c)] ELSE <<>>]
    /\ failuresLeft \in 0..MaxInsertFailures
    /\ an_input = NoInput
    /\ an_result = NotCalled

NextEditEvents ==
    \/ \E ref \in ChannelRefs :
          nSubs = 0 /\ CleanUsername(ref) = ChannelHandle(1) /\ Subscribe(ref)
    \/ BackfillFetch
    \/ \E i \in DOMAIN tasks : NormalizeTask(i)
    \/ GatherAndStore
    \/ sub.pc = "returned" /\ nEvents < MaxEditEvents /\ EditedMessageEvent(1)

SpecEditEvents == InitEditEvents /\ [][NextEditEvents]_vars

\* -------------------------------------------------------------------------
\* The web application: demo.py
\* -------------------------------------------------------------------------

MaxRequests == 2

\* What TelegramAuthManager.initialize_client meets (auth_manager.py, lines
\* 32-61): no credentials, the client constructor or start() raising, a
\* user who is not authorized, an authorized user.
ClientOutcomes ==
    {"no_credentials", "create_raises", "start_raises", "not_authorized", "authorized"}

\* initialize_client: the (success, message) it returns and self.client
\* after it, which line 47 sets before start() and the authorization test.
InitializeClient(outcome) ==
    [success |-> outcome = "authorized",
     client |-> IF outcome \in {"no_credentials", "create_raises"} THEN "None" ELSE "client"]

\* os.getenv("GOOGLE_CLOUD_PROJECT"): unset, set to the empty string, set.
ProjectIds == {PyNone, PyStr(<<>>), PyStr(<<"p">>)}

\* The truth value of an Optional[str].
Truthy(x) == x # PyNone /\ x.v # <<>>

\* TelegramMonitor.__init__'s parameters after self (telegram_monitor.py,
\* lines 133-140), and those of them that have a default.
MonitorParameters ==
    <<"client", "project_id", "openai_api_key", "bucket_name", "media_folder">>

MonitorDefaults == {"bucket_name", "media_folder"}

\* The positional arguments of the constructor call of line 89.
LifespanMonitorArgs == <<"telegram_manager.client", "project_id">>

\* A call with these positional arguments: TypeError when a parameter
\* without a default gets no argument.
BindRaises(args) ==
    \E i \in 1..Len(MonitorParameters) :
        i > Len(args) /\ MonitorParameters[i] \notin MonitorDefaults

\* TelegramMonitor(...): the arguments are bound, then the body (lines
\* 142-178) creates the cloud clients and resources, which can raise.
ConstructMonitor(args, cloud) ==
    IF BindRaises(args) THEN [raised |-> TRUE, exc |-> "TypeError"]
    ELSE IF cloud = "raises" THEN [raised |-> TRUE, exc |-> "cloud client error"]
    ELSE [raised |-> FALSE, exc |-> "none"]

\* lifespan up to its yield (lines 75-95): the globals it leaves. The
\* except clause of lines 92-93 logs what the try block raises.
LifespanGlobals(outcome, project_id, cloud) ==
    LET r == InitializeClient(outcome)
        built == ConstructMonitor(LifespanMonitorArgs, cloud)
    IN  [telegram_manager |-> "manager",
         client |-> r.client,
         telegram_monitor |->
             IF r.success /\ Truthy(project_id) /\ ~built.raised THEN "monitor" ELSE "None"]

\* The application starts: lifespan runs to its yield.
Lifespan ==
    /\ app.phase = "not_started"
    /\ LET g == LifespanGlobals(app.outcome, app.project_id, app.cloud)
       IN  app' = [app EXCEPT !.phase = "running",
                              !.telegram_manager = g.telegram_manager,
                              !.client = g.client,
                              !.telegram_monitor = g.telegram_monitor]
    /\ UNCHANGED <<env, feed, failuresLeft, bindings, handlers, sub, tasks, procs, store,
                   inserts, media_folder, clock, nSubs, nEvents, an_input, an_result>>

\* get_telegram_client (lines 119-124): the HTTPException it raises.
GetTelegramClient ==
    IF app.telegram_manager = "None"
    THEN [raises |-> TRUE, status |-> 500, error |-> "Telegram client not initialized"]
    ELSE IF app.client = "None"
    THEN [raises |-> TRUE, status |-> 401, error |-> "Telegram client not authenticated"]
    ELSE [raises |-> FALSE, status |-> 200, error |-> "none"]

\* The body of the subscribe endpoint (lines 133-147) when the monitor
\* would answer (success, message): without a monitor the HTTPException of
\* line 135 is raised inside the try block, and the except clause of line
\* 145 turns it into a 400 whose detail is str() of it.
SubscribeEndpoint(channel, success) ==
    IF app.telegram_monitor = "None"
    THEN [channel |-> channel, status |-> 400, error |-> "Telegram monitor not initialized",
          delegated |-> FALSE, success |-> FALSE]
    ELSE [channel |-> channel, status |-> 200, error |-> "none",
          delegated |-> TRUE, success |-> success]

\* POST /telegram/subscribe: the dependency, then the endpoint.
PostSubscribe(channel) ==
    /\ app.phase = "running"
    /\ Len(app.responses) < MaxRequests
    /\ \E success \in BOOLEAN :
          LET dep == GetTelegramClient
              response == IF dep.raises
                          THEN [channel |-> channel, status |-> dep.status,
                                error |-> dep.error, delegated |-> FALSE,
                                success |-> FALSE]
                          ELSE SubscribeEndpoint(channel, success)
          IN  app' = [app EXCEPT !.responses = Append(@, response)]
    /\ UNCHANGED <<env, feed, failuresLeft, bindings, handlers, sub, tasks, procs, store,
                   inserts, media_folder, clock, nSubs, nEvents, an_input, an_result>>

\* The application stops: lifespan after its yield (lines 97-99) closes the
\* manager, which disconnects and drops the client.
Shutdown ==
    /\ app.phase = "running"
    /\ app' = [app EXCEPT !.phase = "stopped", !.client = "None"]
    /\ UNCHANGED <<env, feed, failuresLeft, bindings, handlers, sub, tasks, procs, store,
                   inserts, media_folder, clock, nSubs, nEvents, an_input, an_result>>

\* The module as imported (lines 51 and 71: both globals None), in every
\* environment the application can start in. No monitor exists yet.
InitApp ==
    /\ \E outcome \in ClientOutcomes, project_id \in ProjectIds, cloud \in {"ok", "raises"} :
          app = [phase |-> "not_started", outcome |-> outcome, project_id |-> project_id,
                 cloud |-> cloud, telegram_manager |-> "None", client |-> "None",
                 telegram_monitor |-> "None", responses |-> <<>>]
    /\ env = [raws |-> {PlainRaw}, outcomes |-> {FlaggedReply}, medias |-> {"ok"}]
    /\ feed = [c \in Channels |-> <<>>]
    /\ failuresLeft = 0
    /\ bindings = <<>>
    /\ handlers = <<>>
    /\ sub = Idle
    /\ tasks = <<>>
    /\ procs = <<>>
    /\ store = EmptyBag
    /\ inserts = {}
    /\ media_folder = {}
    /\ clock = 0
    /\ nSubs = 0
    /\ nEvents = 0
    /\ an_input = NoInput
    /\ an_result = NotCalled

NextApp ==
    \/ Lifespan
    \/ \E channel \in ChannelRefs : PostSubscribe(channel)
    \/ Shutdown

SpecApp == InitApp /\ [][NextApp]_vars

\* -------------------------------------------------------------------------
\* Properties
\* -------------------------------------------------------------------------

\* The calls a path made.
CallsOf(path) == {c \in inserts : c.caller[1] = path}

\* The rows of a call.
RowsOf(c) == {c.rows[i] : i \in 1..Len(c.rows)}

\* C1: analyze never raises past its boundary: for every input mapping
\* (absent or null text, views, forwards included) and every failure of the
\* scoring call it returns an AnalysisResult.
C1_AnalyzeNeverRaises ==
    an_result.called => ~an_result.result.raised

\* The reply is one the claim C2 names: a transport error, unparsable
\* text, or an object lacking one of the three score keys.
C2_NamedReply(outcome) ==
    \/ outcome.kind \in {"transport_error", "unparsable"}
    \/ outcome.kind = "object" /\ ~(ScoreKeys \subseteq DOMAIN outcome.fields)

\* C2: for a reply that is unparsable, or lacks one of toxicity, veracity,
\* risk_level, and for a transport error, analyze returns exactly the
\* degraded default: three zero scores and requires_investigation false.
\* Stated for the inputs whose views and forwards are not null, where the
\* prompt is built and the scoring call is made.
C2_DegradedOnBadReply ==
    (/\ an_result.called
     /\ Get(an_input.message_data, "views", PyInt(0)) # PyNone
     /\ Get(an_input.message_data, "forwards", PyInt(0)) # PyNone
     /\ C2_NamedReply(an_input.outcome))
    => an_result.result =
          [raised |-> FALSE,
           scores |-> [toxicity |-> 0, veracity |-> 0, risk_level |-> 0],
           requires_investigation |-> FALSE]

\* C3: every record handed to Store.append, by the backfill and by the
\* new-message handler, has a risk mapping with exactly the keys toxicity,
\* veracity and risk_level, each value within [0.0, 1.0].
C3_RiskMappingWellFormed ==
    \A c \in inserts : \A r \in RowsOf(c) :
        /\ DOMAIN r.initial_scores.value = {"toxicity", "veracity", "risk_level"}
        /\ \A k \in DOMAIN r.initial_scores.value :
              r.initial_scores.value[k] >= 0 /\ r.initial_scores.value[k] <= Scale

\* C4: for every record of either ingestion path, requires_investigation
\* is true exactly when toxicity + risk_level of that record's stored
\* scores exceeds 1.0; a sum of exactly 1.0 gives false.
C4_FlagMatchesStoredScores ==
    \A c \in inserts : \A r \in RowsOf(c) :
        /\ {"toxicity", "risk_level"} \subseteq DOMAIN r.initial_scores.value
        /\ r.requires_investigation
              <=> (r.initial_scores.value["toxicity"]
                     + r.initial_scores.value["risk_level"] > Scale)

\* A flagged record was handed over by each path.
C4_Witness ==
    /\ \E c \in CallsOf("backfill") : \E r \in RowsOf(c) : r.requires_investigation
    /\ \E c \in CallsOf("push") : \E r \in RowsOf(c) : r.requires_investigation

\* C5: a successful resolution registers two bindings scoped to the
\* channel, one for new-message and one for edited-message events.
C5_EditedBindingRegistered ==
    \A i \in DOMAIN bindings :
        bindings[i].event = "new" =>
            \E j \in DOMAIN bindings :
                bindings[j].event = "edited" /\ bindings[j].chan = bindings[i].chan

\* The _store_messages calls of the subscribe call in progress or last made.
C6_CallsOfThisBackfill == {c \in CallsOf("backfill") : c.caller[2] = nSubs}

C7_RetryObservesSuccess ==
    \A c \in inserts : c.failuresLeft = 0 => c.ok

\* C8: every Store.append call ends after a bounded number of insert
\* attempts (one), and a call whose attempts all fail surfaces the error:
\* on the backfill path subscribe returns (false, reason).
C8_StoreAttemptsBounded ==
    \A c \in inserts :
        /\ c.attempts = 1
        /\ (c.caller[1] = "backfill" /\ c.caller[2] = nSubs /\ ~c.ok)
              => (sub.pc = "returned" /\ ~sub.ok)

\* The insert of a backfill failed and subscribe returned (false, reason).
C8_Witness ==
    /\ sub.pc = "returned"
    /\ ~sub.ok
    /\ \E c \in CallsOf("backfill") : c.caller[2] = nSubs /\ ~c.ok

C10_BackfillFailures ==
    {"iter_messages raised", "normalization raised", "Failed to insert rows"}

\* The new-message bindings scoped to a channel.
C10_NewBindings(bs, c) == {i \in DOMAIN bs : bs[i].event = "new" /\ bs[i].chan = c}

\* C10, in a state: the new-message binding is registered while the
\* backfill runs and after it has failed, and a failed backfill returns
\* (false, reason).
C10_State ==
    /\ (\/ sub.pc \in {"iterating", "gathering"}
        \/ sub.pc = "returned" /\ sub.entity = "Channel")
       => C10_NewBindings(bindings, sub.chan) # {}
    /\ (sub.pc = "returned" /\ sub.detail \in C10_BackfillFailures) => ~sub.ok

\* C10, in a step: a registered binding stays registered, and a message
\* posted on a channel starts one handler per new-message binding of it.
C10_Step ==
    /\ \A i \in DOMAIN bindings : i \in DOMAIN bindings' /\ bindings'[i] = bindings[i]
    /\ \A c \in Channels :
          (nEvents' = nEvents + 1 /\ Len(feed'[c]) = Len(feed[c]) + 1)
          => Len(procs') = Len(procs) + Cardinality(C10_NewBindings(bindings, c))

\* C10: bindings are attached before the backfill executes; when the
\* backfill fails subscribe returns (false, reason) and the new-message
\* binding stays registered, so later new-message events are processed.
C10_BindingsBeforeBackfill == []C10_State /\ [][C10_Step]_vars

\* A backfill failed, and a new-message event of that channel was stored.
C10_Witness ==
    /\ sub.pc = "returned"
    /\ sub.detail \in C10_BackfillFailures
    /\ \E p \in DOMAIN procs :
          procs[p].chan = sub.chan /\ procs[p].pc = "done" /\ procs[p].logged = "none"

\* The handlers that end in this step with an error logged.
C11_Dropped ==
    {p \in DOMAIN procs : procs[p].pc # "done" /\ procs'[p].pc = "done"
                           /\ procs'[p].logged # "none"}

\* C11, in a state: no handler of a new-message event ends by raising.
C11_State == \A p \in DOMAIN procs : procs[p].pc \in {"prepare", "analyze", "done"}

\* C11, in a step: a handler that fails leaves the Store as it was, starts
\* no other handler (the event is not queued again) and removes no binding;
\* a message posted later starts one handler per binding of its channel.
C11_Step ==
    /\ C11_Dropped # {}
          => /\ store' = store
             /\ Len(procs') = Len(procs)
             /\ bindings' = bindings
    /\ nEvents' = nEvents + 1
          => Len(procs') = Len(procs) + Cardinality(C10_NewBindings(bindings, 1))

\* C11: on the new-message path a failure of normalization or of
\* Store.append drops the event: the handler returns without raising, the
\* event is not queued again, the Store is unchanged by it, and later events
\* of the channel are still processed.
C11_PushFailureDropsEvent == []C11_State /\ [][C11_Step]_vars

\* One event was dropped by normalization, a later one by the insert, and
\* one after both was stored.
C11_Witness ==
    \E p, q, r \in DOMAIN procs :
        /\ p < q /\ q < r
        /\ procs[p].pc = "done" /\ procs[p].logged = "UnboundLocalError"
        /\ procs[q].pc = "done" /\ procs[q].logged = "Failed to insert rows"
        /\ procs[r].pc = "done" /\ procs[r].logged = "none"
        /\ \E c \in CallsOf("push") :
              c.ok /\ \E row \in RowsOf(c) : row.message_id = procs[r].message.id

\* A step is a _handle_edited_message call.
C12_EditStep ==
    /\ Len(procs') = Len(procs) + 1
    /\ procs'[Len(procs')].event = "edited"

\* The stored rows with the key of the call of this step.
C12_RowsOfKey ==
    {r \in BagToSet(store) :
        /\ r.message_id = procs'[Len(procs')].message.id
        /\ r.channel_id = procs'[Len(procs')].chan}

\* C12, in a state: no correction ends by raising, and each has made at
\* most one update attempt.
C12_State ==
    \A p \in DOMAIN procs :
        procs[p].event = "edited" => procs[p].pc = "done" /\ procs[p].attempts <= 1

\* C12, in a step: a correction whose normalization or query fails, and one
\* whose key is not in the Store, leave every stored record as it was; the
\* latter matches no row.
C12_Step ==
    C12_EditStep =>
        /\ procs'[Len(procs')].logged # "none" => store' = store
        /\ C12_RowsOfKey = {} => store' = store /\ procs'[Len(procs')].matched = 0

\* C12: the edited-message correction never raises and makes a single
\* update attempt: for a failure of normalization or of the update query it
\* returns normally, and for a key (channel_id, message_id) not in the
\* Store it matches no row and leaves every stored record unchanged.
C12_EditNeverRaises == []C12_State /\ [][C12_Step]_vars

\* With rows stored, one correction had a key that is not in the Store and
\* matched nothing, and one failed.
C12_Witness ==
    /\ store # EmptyBag
    /\ \E p, q \in DOMAIN procs :
          /\ procs[p].event = "edited" /\ procs[p].logged = "none"
          /\ procs[p].matched = 0 /\ procs[p].chan = 2
          /\ procs[q].event = "edited" /\ procs[q].logged # "none"

\* The fields a correction may overwrite.
C13_MutableFields ==
    {"text", "views", "forwards", "replies", "edited", "edited_at", "has_reactions",
     "reaction_counts"}

\* A row without its mutable fields.
C13_Fixed(r) == [f \in DOMAIN r \ C13_MutableFields |-> r[f]]

\* The number of rows of a table with the given fixed part.
C13_CountFixed(table, fixed) ==
    CountRows(table, {r \in BagToSet(table) : C13_Fixed(r) = fixed})

\* C13, in a step: a correction keeps, row for row, every field that is not
\* mutable (message_id, channel_id, date, the media fields, processed, the
\* risk scores, requires_investigation, ...), and keeps every row of
\* another key whole.
C13_Step ==
    C12_EditStep =>
        /\ \A r \in BagToSet(store) \cup BagToSet(store') :
              /\ C13_CountFixed(store', C13_Fixed(r)) = C13_CountFixed(store, C13_Fixed(r))
              /\ ~(r.message_id = procs'[Len(procs')].message.id
                    /\ r.channel_id = procs'[Len(procs')].chan)
                    => CopiesIn(r, store') = CopiesIn(r, store)

\* C13: a correction for key (channel_id, message_id) overwrites only the
\* mutable fields text, views, forwards, replies, edited, edited_at,
\* has_reactions and reaction_counts of the rows with that key; the other
\* fields of those rows, and all fields of every other row, are unchanged.
C13_EditOverwritesMutableOnly == [][C13_Step]_vars

\* A correction matched a stored row and rewrote its text, next to a row of
\* another key.
C13_Witness ==
    \E p \in DOMAIN procs :
        /\ procs[p].event = "edited" /\ procs[p].matched = 1
        /\ \E r, o \in BagToSet(store) :
              /\ r.message_id = procs[p].message.id /\ r.channel_id = procs[p].chan
              /\ r.text = PyStr(<<"e", "d">>) /\ r.edited
              /\ o.message_id # r.message_id /\ ~o.edited

\* C14: after _handle_media returns, on every exit path (upload done,
\* upload failed, download failed), no staging file that the call created
\* remains in the media folder.
C14_NoStagingFileLeft == media_folder = {}

\* C15: for a message with an attachment whose download or upload fails,
\* normalization still completes and gives a record with has_media true and
\* media_urls empty; media_urls is non-empty only if both download and
\* upload succeeded.
C15_MediaFailureKeepsRecord ==
    \A i \in DOMAIN an_result.runs :
        LET run == an_result.runs[i]
        IN  an_input.message.media # PyNone =>
              /\ run.mo # "ok" =>
                    /\ ~run.result.raised
                    /\ run.result.data.has_media
                    /\ run.result.data.media_urls = <<>>
              /\ (~run.result.raised /\ run.result.data.media_urls # <<>>) => run.mo = "ok"

\* The attribute is missing or null.
C16_Absent(message, name) == ~HasAttr(message, name) \/ message[name] = PyNone

\* C16: for every raw message whose views, forwards and reply summary are
\* absent (missing or null), and for a reply summary that lacks its inner
\* count, normalization completes and the record has views = forwards =
\* replies = 0.
C16_AbsentCountersAreZero ==
    \A i \in DOMAIN an_result.runs :
        LET run == an_result.runs[i]
            message == an_input.message
        IN  (/\ C16_Absent(message, "views")
             /\ C16_Absent(message, "forwards")
             /\ C16_Absent(message, "replies") \/ ~HasAttr(message.replies, "replies"))
            => /\ ~run.result.raised
               /\ run.result.data.views = PyInt(0)
               /\ run.result.data.forwards = PyInt(0)
               /\ run.result.data.replies = 0

\* Two results of normalization agree in everything but created_at.
C19_SameButIngestion(a, b) ==
    /\ a.raised = b.raised
    /\ a.raised => a.exc = b.exc
    /\ ~a.raised =>
          [f \in DOMAIN a.data \ {"created_at"} |-> a.data[f]]
            = [f \in DOMAIN b.data \ {"created_at"} |-> b.data[f]]

\* C19 as stated: two runs of _prepare_message_data on the same raw message
\* and channel, with a scoring capability that gives the same reply both
\* times, yield records equal in every field except created_at.
C19_IdempotentGivenScorer ==
    \A i, j \in DOMAIN an_result.runs :
        C19_SameButIngestion(an_result.runs[i].result, an_result.runs[j].result)

\* C19, amended: two runs on the same raw message and channel, with a
\* scoring capability that gives the same reply and media download and
\* upload that end the same way both times, yield records equal in every
\* field except created_at.
C19_IdempotentGivenScorerAndMedia ==
    \A i, j \in DOMAIN an_result.runs :
        an_result.runs[i].mo = an_result.runs[j].mo
        => C19_SameButIngestion(an_result.runs[i].result, an_result.runs[j].result)

\* A message with an attachment was normalized twice, uploaded both times,
\* at different times.
C19_Witness ==
    /\ Len(an_result.runs) = 2
    /\ an_result.runs[1].mo = "ok" /\ an_result.runs[2].mo = "ok"
    /\ ~an_result.runs[1].result.raised
    /\ an_result.runs[1].result.data.media_urls # <<>>
    /\ an_result.runs[1].result.data.created_at # an_result.runs[2].result.data.created_at

\* The text of the mapping is absent: no key, null, empty or blank.
C17_TextAbsent(message_data) ==
    \/ "text" \notin DOMAIN message_data
    \/ message_data["text"] = PyNone
    \/ message_data["text"].t = "str" /\ Strip(message_data["text"].v) = <<>>

\* C17: the scorer is invoked for every message, and whenever the message
\* text is absent (null), empty or whitespace-only the text placed in the
\* scoring prompt is exactly the sentinel "No text content".
C17_SentinelForAbsentText ==
    an_result.called =>
        /\ ScorerInvoked(an_input.message_data)
        /\ C17_TextAbsent(an_input.message_data)
              => PromptOf(an_input.message_data).text = NoTextContent

\* C18: the clean-up maps the bare handle h, the @-prefixed handle @h and
\* the invite URL https://t.me/h to the same canonical handle h before
\* resolution, for every handle h.
C18_CanonicalHandle ==
    an_result.called => an_result.channel_username = an_input.handle

\* "https://t.me/example" was cleaned to "example".
C18_Witness ==
    /\ an_result.called
    /\ an_input.form = "url"
    /\ an_input.handle = ExampleHandle
    /\ an_result.channel_username = <<"e", "x", "a", "m", "p", "l", "e">>

\* C20, in a state: no read has raised, and a read whose query failed has
\* returned the empty list.
C20_State ==
    \A i \in DOMAIN an_result.reads :
        /\ ~an_result.reads[i].raised
        /\ an_result.reads[i].qo = "raises" => an_result.reads[i].result = <<>>

\* C20, in a step: a read leaves the Store as it was.
C20_Step ==
    Len(an_result'.reads) > Len(an_result.reads) => store' = store /\ inserts' = inserts

\* C20: get_recent_messages and get_last_messages never raise: on any
\* query failure they return an empty list and leave the Store unchanged.
C20_ReadsNeverRaise == []C20_State /\ [][C20_Step]_vars

\* With rows stored, each read has failed once and returned the empty list.
C20_Witness ==
    /\ store # EmptyBag
    /\ \E i, j \in DOMAIN an_result.reads :
          /\ an_result.reads[i].method = "get_recent_messages"
          /\ an_result.reads[i].qo = "raises" /\ an_result.reads[i].result = <<>>
          /\ an_result.reads[j].method = "get_last_messages"
          /\ an_result.reads[j].qo = "raises" /\ an_result.reads[j].result = <<>>

\* The keys (channel_id, message_id) of the rows of a call.
C21_KeysOf(c) == {<<r.channel_id, r.message_id>> : r \in RowsOf(c)}

\* C21: the backfill batch completes before new-message events of the
\* backfill range can double-process: it is never the case that both the
\* backfill append and a new-message handler append a row for the same
\* (channel_id, message_id), so the Store holds at most one row per key.
C21_NoDoubleProcessing ==
    \A b \in CallsOf("backfill"), h \in CallsOf("push") :
        (b.ok /\ h.ok) => C21_KeysOf(b) \cap C21_KeysOf(h) = {}

\* A step issues the append of a backfill.
C22_BackfillAppendStep ==
    \E c \in inserts' \ inserts : c.caller[1] = "backfill"

\* C22: the append of a backfill batch starts only after every
\* normalization task of that batch has completed: no record of a batch is
\* appended while a normalization of the batch is still running.
C22_AppendAfterAllNormalized ==
    [][C22_BackfillAppendStep
        => \A i \in 1..Len(tasks) : tasks[i].state = "done"]_vars

\* Ten messages were normalized and appended by one backfill.
C22_Witness ==
    /\ Len(feed[1]) = 10
    /\ Len(tasks) = 10
    /\ \E c \in C6_CallsOfThisBackfill : Len(c.rows) = 10

\* Nothing is running: subscribe has returned, and every normalization task
\* and every handler has ended.
C23_Quiescent ==
    /\ sub.pc = "returned"
    /\ \A i \in DOMAIN tasks : tasks[i].state # "pending"
    /\ \A p \in DOMAIN procs : procs[p].pc = "done"

\* Two edited-message events were delivered, both for message i of channel 1.
C23_EditedTwice(i) ==
    /\ nEvents = 2
    /\ i \in DOMAIN feed[1]
    /\ feed[1][i].edit_date # PyNone
    /\ \A j \in DOMAIN feed[1] : j # i => feed[1][j].edit_date = PyNone

\* C23: edits of one message key are processed in the order their events
\* are delivered: after the events e1 then e2 for the same (channel_id,
\* message_id), the stored mutable fields finally reflect e2.
C23_EditsAppliedInOrder ==
    \A i \in DOMAIN feed[1] :
        (C23_Quiescent /\ C23_EditedTwice(i)) =>
            \A r \in BagToSet(store) :
                (r.channel_id = 1 /\ r.message_id = i) =>
                    /\ r.text = feed[1][i].text
                    /\ r.edited
                    /\ r.edited_at = IsoFormat(feed[1][i].edit_date.v)

\* C24: after any sequence of subscribe calls (repeated subscribes to one
\* channel and subscribes whose backfill failed included) at most one
\* new-message binding is registered per channel, so one delivered
\* new-message event starts at most one handler, hence one append.
C24_OneBindingPerChannel ==
    /\ \A c \in Channels : Cardinality(C10_NewBindings(bindings, c)) <= 1
    /\ \A p, q \in DOMAIN procs :
          (/\ procs[p].event = "new" /\ procs[q].event = "new"
           /\ procs[p].chan = procs[q].chan
           /\ procs[p].message.id = procs[q].message.id) => p = q

\* A record without created_at.
C25_ButIngestion(r) == [f \in DOMAIN r \ {"created_at"} |-> r[f]]

\* C25: for the same raw message and the same replies of the scorer, the
\* new-message path and the backfill path hand Store.append the same
\* record: every field, initial_scores in its JSON-string form included, is
\* equal except created_at.
C25_PathsHandSameRecord ==
    \A b \in CallsOf("backfill"), h \in CallsOf("push") :
        \A rb \in RowsOf(b), rh \in RowsOf(h) :
            (rb.channel_id = rh.channel_id /\ rb.message_id = rh.message_id)
            => /\ rh.initial_scores.form = "json_string"
               /\ C25_ButIngestion(rb) = C25_ButIngestion(rh)

\* C26: processing one new-message event invokes the external scoring
\* capability exactly once, and the scores and requires_investigation
\* stored for the message come from that invocation.
C26_ScoredOncePerEvent ==
    \A p \in DOMAIN procs :
        (procs[p].event = "new" /\ procs[p].pc = "done" /\ procs[p].logged = "none")
        => procs[p].scored = 1


\* The subscribe call in progress or last made resolved a channel and went
\* on to the backfill.
C27_InBackfill ==
    \/ sub.pc = "gathering"
    \/ sub.pc = "returned" /\ sub.entity = "Channel"

\* The backfill failed before its append: a normalization raised, or the
\* retrieval raised part-way.
C27_FailedBeforeAppend ==
    \/ \E i \in 1..Len(tasks) : tasks[i].state = "failed"
    \/ sub.pc = "returned" /\ sub.detail = "iter_messages raised"

\* C27: backfill is all-or-nothing in its append calls: when the
\* normalization of one retrieved message raises, or the retrieval fails
\* part-way, no append is issued for the batch and subscribe returns
\* (false, reason); subscribe returns (true, ...) only when every retrieved
\* message was normalized and the one append of the whole batch succeeded,
\* or no message was retrieved.
C27_BackfillAllOrNothing ==
    C27_InBackfill =>
        /\ C27_FailedBeforeAppend =>
              /\ C6_CallsOfThisBackfill = {}
              /\ sub.pc = "returned" => ~sub.ok
        /\ (sub.pc = "returned" /\ sub.ok) =>
              /\ \A i \in 1..Len(tasks) : tasks[i].state = "done"
              /\ tasks = <<>> => C6_CallsOfThisBackfill = {}
              /\ tasks # <<>> =>
                    \E c \in C6_CallsOfThisBackfill :
                        /\ C6_CallsOfThisBackfill = {c}
                        /\ c.ok
                        /\ c.rows = [i \in 1..Len(tasks) |-> tasks[i].data]

\* Of two retrieved messages one was normalized and the other's
\* normalization raised: subscribe returned false and nothing was appended.
C27_Witness ==
    /\ sub.pc = "returned"
    /\ sub.entity = "Channel"
    /\ ~sub.ok
    /\ \E i, j \in 1..Len(tasks) : tasks[i].state = "done" /\ tasks[j].state = "failed"
    /\ C6_CallsOfThisBackfill = {}

\* C28: when the client initialization succeeds and GOOGLE_CLOUD_PROJECT is
\* set, the running application has a telegram_monitor, and a POST
\* /telegram/subscribe is delegated to it rather than failing with
\* "Telegram monitor not initialized".
C28_StartupLeavesMonitor ==
    (/\ app.phase = "running"
     /\ app.outcome = "authorized"
     /\ Truthy(app.project_id)
     /\ app.cloud = "ok")
    => /\ app.telegram_monitor # "None"
       /\ \A i \in 1..Len(app.responses) : app.responses[i].delegated

====
